---- MODULE Spec2Model ----
(***************************************************************************)
(* Cache-consistency protocol of the product catalog service               *)
(* (src/index.js): the read-through path GET /products-cached, the         *)
(* invalidate-on-write path of POST/PUT/DELETE /products, POST /populate   *)
(* and POST /clear-cache, the document store and the Redis key 'products'  *)
(* with its expiry.  Every await of a handler is one atomic step of the    *)
(* request; requests interleave freely (no lock in the source).            *)
(***************************************************************************)
EXTENDS Integers, Sequences, FiniteSets, TLC

(* ----------------------------- bounds --------------------------------- *)
\* ObjectIds the store driver may generate in one behaviour.
MaxOid == 1
\* The clock advances in steps of TTL / TicksPerTTL seconds.
TicksPerTTL == 2
\* Documents inserted by one POST /populate (1000 in the source, scaled).
PopulateCount == 1
\* Connection attempts of the cache client followed in a row.
MaxTimes == 42

\* redis.set('products', ..., 'EX', 3600)
TTL == 3600

\* Math.min(times * 50, 2000)
RetryStepMs == 50
RetryCapMs == 2000

TickStep == TTL \div TicksPerTTL
\* Ages saturate at the first clock value beyond TTL.
AgeCap == TTL + TickStep
\* In-flight request slots (concurrent clients).
Reqs == {1, 2}
\* Payloads of a product (the fields other than _id, abstracted).
Vals == {1, 2}
\* Payloads of inserted products; PUT may set any payload of Vals.
NewVals == {1}
\* String _id values a client may put in a POST body.
ClientIds == {1}

Min(a, b) == IF a < b THEN a ELSE b

(* ------------------------- documents and JSON ------------------------- *)
Oid(n) == [t |-> "oid", n |-> n]
StrId(n) == [t |-> "str", n |-> n]

\* The JSON text of an _id: an ObjectId serialises to its hex string, a
\* string to itself.  Codes of ObjectIds are kept apart from client strings.
IdText(id) == IF id.t = "oid" THEN 10 + id.n ELSE id.n

\* :id path parameters a client may send: a string _id, or the hex text of
\* an ObjectId.
UrlIds == ClientIds \cup {IdText(Oid(1))}

\* JSON.stringify(products): "[" doc ... "]" as a sequence of character
\* codes, two codes per document (its _id text and its payload).
JSONStringifyDropLast(products) ==
  <<91>> \o [i \in 1..(2 * (Len(products) - 1)) |->
               IF i % 2 = 1 THEN IdText(products[(i + 1) \div 2].id)
                            ELSE products[i \div 2].val] \o <<93>>

JSONStringify(products) ==
  <<91>> \o [i \in 1..(2 * Len(products)) |->
               IF i % 2 = 1 THEN IdText(products[(i + 1) \div 2].id)
                            ELSE products[i \div 2].val] \o <<93>>

\* JSON.parse(text): every _id comes back as a string.
JSONParse(text) ==
  [i \in 1..((Len(text) - 2) \div 2) |->
     [id |-> StrId(text[2 * i]), val |-> text[2 * i + 1]]]

(* ------------------------------ the cache ----------------------------- *)
\* The key 'products' is absent.  age, was and missedDel are history
\* variables: seconds since the entry was written, whether its value was the
\* serialised store listing at some instant, and whether a redis.del that
\* would have removed the entry has failed.
NoEntry == [present |-> FALSE, val |-> <<>>, ttl |-> 0, age |-> 0,
            was |-> FALSE, missedDel |-> FALSE]

\* redis.get('products'): null when the key is absent.
RedisGet(c) == [nil |-> ~c.present, s |-> c.val]

\* if (cachedProducts): null and the empty string are falsy.
TruthyNonEmptyListing(g) == ~g.nil /\ Len(g.s) > 2

Truthy(g) == ~g.nil /\ Len(g.s) > 0

\* redis.set('products', text, 'EX', 3600)
RedisSetEX(text, seconds) ==
  [present |-> TRUE, val |-> text, ttl |-> seconds, age |-> 0,
   was |-> FALSE, missedDel |-> FALSE]

(* ------------------------------ the store ----------------------------- *)
\* productsCollection.find({}).toArray(): the whole listing, in insertion
\* order.
FindOnlyFirstPayload(st) == SelectSeq(st, LAMBDA d : d.val = 1)

Find(st) == st

\* { _id: req.params.id } compares a string with the stored _id: it matches
\* string ids only, never an ObjectId.
Matches(d, urlId) == d.id.t = "str" /\ d.id.n = urlId

HasId(st, id) == \E i \in 1..Len(st) : st[i].id = id

\* insertOne(req.body): the driver generates an ObjectId unless the body
\* carries an _id.
InsertOne(st, id, val) == Append(st, [id |-> id, val |-> val])

\* updateOne({ _id }, { $set: req.body })
UpdateOne(st, urlId, val) ==
  [i \in 1..Len(st) |-> IF Matches(st[i], urlId) THEN [st[i] EXCEPT !.val = val]
                                                ELSE st[i]]

\* deleteOne({ _id })
DeleteOne(st, urlId) == SelectSeq(st, LAMBDA d : ~Matches(d, urlId))

\* insertMany(testProducts): fresh ObjectIds first, first + 1, ...
InsertMany(st, first, vals) ==
  st \o [i \in 1..Len(vals) |-> [id |-> Oid(first + i - 1), val |-> vals[i]]]

(* ---------------------------- request state --------------------------- *)
VARIABLES
  store,      \* the products collection: a sequence of documents
  nextOid,    \* the next ObjectId the driver generates
  cache,      \* the Redis key 'products'
  req,        \* one record per request slot
  settled,    \* history: the key was removed since the last store change
  sinceChange, \* history: seconds since the listing last changed (saturating)
  last        \* history: what the last answered request did, while requests
              \* run one at a time: the _id text a POST /products answered
              \* 201 inserted, Cleared for a POST /clear-cache answered 200,
              \* 0 otherwise; Mixed while a request in flight has shared
              \* its time with another

VARIABLES
  boot,       \* the process: pc of initializeApp, db of connectDB, indexes made
  redisConn   \* the ioredis client: status, retry attempt, delay, ever ready

vars == <<store, nextOid, cache, req, settled, sinceChange, last, boot,
          redisConn>>

Cleared == 0 - 1
Mixed == 0 - 2

MutationKinds == {"create", "update", "delete", "populate"}

RouteKinds == MutationKinds \cup {"cached", "list", "getOne", "clear"}

\* kind/pc/prods/status/body are the handler's state (req.body and
\* req.params.id are drawn when the store call uses them; body is the
\* listing or document a GET responds with, the result objects of the
\* mutating routes are left out); the rest are history variables: id (the
\* _id text insertOne inserted or findOne looked for), hit (outcome of the cache
\* lookup), failed (the await that threw), nq/nw/nd (store queries, cache
\* writes, cache deletes issued), acked (the store acknowledged the
\* mutation), was (prods was the store listing at some instant).
IdleReq ==
  [kind |-> "idle", pc |-> "idle", prods |-> <<>>, id |-> 0,
   status |-> 0, body |-> <<>>, hit |-> "none", failed |-> "none",
   nq |-> 0, nw |-> 0, nd |-> 0, acked |-> FALSE, was |-> FALSE]

\* The first await of each handler.
EntryInvalidateFirst(kind) ==
  IF kind = "cached" THEN "get"
  ELSE IF kind = "list" THEN "findAll"
  ELSE IF kind = "getOne" THEN "findOne"
  ELSE IF kind \in {"clear", "create"} THEN "del" ELSE "mutate"

Entry(kind) ==
  IF kind = "cached" THEN "get"
  ELSE IF kind = "list" THEN "findAll"
  ELSE IF kind = "getOne" THEN "findOne"
  ELSE IF kind = "clear" THEN "del" ELSE "mutate"

\* The await that follows await pc of handler kind when pc did not throw
\* (for "get": when the lookup missed).
ThenSkipInvalidation(kind, pc) ==
  IF kind = "cached" /\ pc = "get" THEN "find"
  ELSE IF kind = "cached" /\ pc = "find" THEN "set"
  ELSE IF kind \in MutationKinds \ {"update"} /\ pc = "mutate" THEN "del"
  ELSE "done"

ThenCreateSkipsInvalidation(kind, pc) ==
  IF kind = "cached" /\ pc = "get" THEN "find"
  ELSE IF kind = "cached" /\ pc = "find" THEN "set"
  ELSE IF kind \in MutationKinds \ {"create"} /\ pc = "mutate" THEN "del"
  ELSE "done"

ThenSkipCacheWrite(kind, pc) ==
  IF kind = "cached" /\ pc = "get" THEN "find"
  ELSE IF kind \in MutationKinds /\ pc = "mutate" THEN "del"
  ELSE "done"

Then(kind, pc) ==
  IF kind = "cached" /\ pc = "get" THEN "find"
  ELSE IF kind = "cached" /\ pc = "find" THEN "set"
  ELSE IF kind \in MutationKinds /\ pc = "mutate" THEN "del"
  ELSE "done"

\* res.status(201) for POST /products, res.json (200) elsewhere.
SuccessStatus(kind) == IF kind = "create" THEN 201 ELSE 200

\* catch (error) { res.status(500).json({ error: error.message }) }
CatchAnswersEmpty(q, what) ==
  [q EXCEPT !.pc = "done", !.status = 200, !.body = <<91, 93>>,
            !.failed = what, !.prods = <<>>, !.was = FALSE]

Catch(q, what) ==
  [q EXCEPT !.pc = "done", !.status = 500, !.body = <<>>, !.failed = what,
            !.prods = <<>>, !.was = FALSE]

\* res.status(...).json(body) on the success path.
Respond(q, body) ==
  [q EXCEPT !.pc = "done", !.status = SuccessStatus(q.kind), !.body = body,
            !.prods = <<>>, !.was = FALSE]

\* The value written on a miss: redis.set('products',
\* JSON.stringify(products), 'EX', 3600).
CacheEntryForTwiceTTL(products) == RedisSetEX(JSONStringify(products), 2 * TTL)

CacheEntryForDropLast(products) == RedisSetEX(JSONStringifyDropLast(products), TTL)

CacheEntryFor(products) == RedisSetEX(JSONStringify(products), TTL)

\* res.json(JSON.parse(cachedProducts)) on a hit.
HitBody(text) == JSONStringify(JSONParse(text))

\* res.json(products) on a miss.
MissBodyOfLookup(products) == <<>>

MissBody(products) == JSONStringify(products)

(* ------------------------------ one step ------------------------------ *)
\* The new request records, store and cache; d seconds elapsed; removed =
\* the key was deleted or expired in this step; l = the new value of last.
StepL(rq, st, c, d, removed, l) ==
  /\ req' = rq
  /\ store' = st
  /\ cache' = c
  /\ settled' = IF st # store THEN FALSE ELSE (removed \/ settled)
  /\ sinceChange' = IF st # store THEN 0 ELSE Min(sinceChange + d, AgeCap)
  /\ last' = l
  /\ UNCHANGED <<boot, redisConn>>

Step(rq, st, c, d, removed) == StepL(rq, st, c, d, removed, last)

TypeOK ==
  /\ nextOid \in 1..(MaxOid + 1)
  /\ cache.present \in BOOLEAN
  /\ settled \in BOOLEAN
  /\ last \in {0, Cleared, Mixed} \cup UrlIds \cup {IdText(Oid(n)) : n \in 1..MaxOid}
  /\ boot.pc \in {"load", "connectDB", "createIndex", "listening", "exited"}
  /\ redisConn.status \in {"connecting", "ready", "waiting", "end"}
  /\ \A r \in Reqs : req[r].pc \in
       {"idle", "get", "find", "set", "findAll", "findOne", "mutate", "del",
        "done"}

\* app.listen(PORT, ...) has been reached: connectDB resolved and the
\* three indexes exist.
Serving == [pc |-> "listening", db |-> "connected", indexes |-> 3]

\* new Redis({...}) once its connection is ready.
RedisReady == [status |-> "ready", times |-> 0, delay |-> 0, up |-> TRUE]

\* An empty collection and an empty cache, no request.
Empty ==
  /\ store = <<>>
  /\ nextOid = 1
  /\ cache = NoEntry
  /\ req = [r \in Reqs |-> IdleReq]
  /\ settled = TRUE
  /\ sinceChange = AgeCap
  /\ last = 0

\* The service once it listens.
Init ==
  /\ Empty
  /\ boot = Serving
  /\ redisConn = RedisReady

\* A response is handed to its client before anything else happens: a
\* finished handler touches no shared state, so this order loses no
\* behaviour of the store and the cache.
NoneDone == \A r \in Reqs : req[r].pc # "done"

(* ------------------------- requests arriving -------------------------- *)
Alone(r) == \A o \in Reqs \ {r} : req[o].pc = "idle"

Arrive(r, kind) ==
  /\ boot.pc = "listening"
  /\ NoneDone
  /\ req[r].pc = "idle"
  /\ StepL([req EXCEPT ![r] = [IdleReq EXCEPT !.kind = kind, !.pc = Entry(kind)]],
           store, cache, 0, FALSE, IF Alone(r) THEN last ELSE Mixed)
  /\ UNCHANGED nextOid

\* app.get('/products', ...)
GetProducts(r) == Arrive(r, "list")

\* app.get('/products/:id', ...)
GetProduct(r) == Arrive(r, "getOne")

\* app.get('/products-cached', ...)
GetProductsCached(r) == Arrive(r, "cached")

\* app.post('/products', ...)
PostProducts(r) == Arrive(r, "create")

\* app.put('/products/:id', ...)
PutProduct(r) == Arrive(r, "update")

\* app.delete('/products/:id', ...)
DeleteProduct(r) == Arrive(r, "delete")

\* app.post('/populate', ...)
PostPopulate(r) == Arrive(r, "populate")

\* app.post('/clear-cache', ...)
PostClearCache(r) == Arrive(r, "clear")

(* ------------------------ GET /products-cached ------------------------ *)
\* The entry after redis.get('products') found it: GET touches neither the
\* value nor the expiry, and the hit branch issues no other command.
EntryAfterHitTouched(c) == [c EXCEPT !.ttl = TTL, !.age = 0]

EntryAfterHit(c) == c

\* await redis.get('products'); on a hit the handler responds at once.
CachedGet(r) ==
  /\ NoneDone
  /\ req[r].kind = "cached" /\ req[r].pc = "get"
  /\ \E ok \in BOOLEAN :
       LET q == req[r]
           g == RedisGet(cache)
           rq == IF ~ok THEN [req EXCEPT ![r] = Catch(q, "get")]
                 ELSE IF Truthy(g)
                   THEN [req EXCEPT ![r] =
                           Respond([q EXCEPT !.hit = "hit"], HitBody(g.s))]
                 ELSE [req EXCEPT ![r] = [q EXCEPT !.hit = "miss",
                                                   !.pc = Then("cached", "get")]]
           c == IF ok /\ Truthy(g) THEN EntryAfterHit(cache) ELSE cache
       IN Step(rq, store, c, 0, FALSE)
  /\ UNCHANGED nextOid

\* await productsCollection.find({}).toArray()
CachedFind(r) ==
  /\ NoneDone
  /\ req[r].kind = "cached" /\ req[r].pc = "find"
  /\ \E ok \in BOOLEAN :
       LET q == [req[r] EXCEPT !.nq = @ + 1]
           next == Then("cached", "find")
           got == [q EXCEPT !.prods = Find(store), !.pc = next,
                            !.was = (Find(store) = store)]
           rq == IF ~ok THEN [req EXCEPT ![r] = Catch(q, "find")]
                 ELSE IF next = "done"
                   THEN [req EXCEPT ![r] = Respond(got, MissBody(got.prods))]
                 ELSE [req EXCEPT ![r] = got]
       IN Step(rq, store, cache, 0, FALSE)
  /\ UNCHANGED nextOid

\* await redis.set('products', JSON.stringify(products), 'EX', 3600);
\* res.json(products)
CachedSet(r) ==
  /\ NoneDone
  /\ req[r].kind = "cached" /\ req[r].pc = "set"
  /\ \E ok \in BOOLEAN :
       LET q == [req[r] EXCEPT !.nw = @ + 1]
           e == CacheEntryFor(q.prods)
           w == q.was /\ e.val = JSONStringify(q.prods)
       IN IF ok
            THEN Step([req EXCEPT ![r] = Respond(q, MissBody(q.prods))],
                      store, [e EXCEPT !.was = w], 0, FALSE)
            ELSE Step([req EXCEPT ![r] = Catch(q, "set")], store, cache, 0, FALSE)
  /\ UNCHANGED nextOid

(* ---------------------------- GET /products --------------------------- *)
\* res.json(products) of the uncached listing.
UncachedBodyDropLast(products) == JSONStringifyDropLast(products)

UncachedBody(products) == JSONStringify(products)

\* const products = await productsCollection.find({}).toArray();
\* res.json(products)
ListFind(r) ==
  /\ NoneDone
  /\ req[r].kind = "list" /\ req[r].pc = "findAll"
  /\ LET q == [req[r] EXCEPT !.nq = @ + 1] IN
       \/ Step([req EXCEPT ![r] = Respond(q, UncachedBody(Find(store)))],
               store, cache, 0, FALSE)
       \/ Step([req EXCEPT ![r] = Catch(q, "findAll")], store, cache, 0, FALSE)
  /\ UNCHANGED nextOid

(* -------------------------- GET /products/:id ------------------------- *)
\* findOne({ _id: req.params.id }): the first match, or null.
FindOne(st, urlId) == SelectSeq(st, LAMBDA d : Matches(d, urlId))

\* if (!product) return res.status(404)...; res.json(product)
FindOneStatusUnchecked(found) == 200

FindOneStatus(found) == IF found THEN 200 ELSE 404

\* const product = await productsCollection.findOne(...)
GetOneFind(r) ==
  /\ NoneDone
  /\ req[r].kind = "getOne" /\ req[r].pc = "findOne"
  /\ \/ \E urlId \in UrlIds :
          LET q == [req[r] EXCEPT !.nq = @ + 1, !.id = urlId]
              hits == FindOne(store, urlId)
              body == IF hits = <<>> THEN <<>>
                      ELSE <<IdText(hits[1].id), hits[1].val>>
          IN Step([req EXCEPT ![r] =
                     [Respond(q, body) EXCEPT
                        !.status = FindOneStatus(hits # <<>>)]],
                  store, cache, 0, FALSE)
     \/ Step([req EXCEPT ![r] = Catch([req[r] EXCEPT !.nq = @ + 1], "findOne")],
             store, cache, 0, FALSE)
  /\ UNCHANGED nextOid

(* ------------------------- the mutating routes ------------------------ *)
\* The store acknowledges the mutation: the collection becomes st and the
\* driver's ObjectId counter oid.
Acked(r, st, oid) ==
  LET q == [req[r] EXCEPT !.acked = TRUE,
                          !.id = IF req[r].kind = "create"
                                   THEN IdText(st[Len(st)].id) ELSE 0]
      next == Then(q.kind, "mutate")
  IN /\ Step([req EXCEPT ![r] = IF next = "done" THEN Respond(q, <<>>)
                                                 ELSE [q EXCEPT !.pc = next]],
             st, cache, 0, FALSE)
     /\ nextOid' = oid

ThrowsThenInvalidate(r, what) ==
  /\ Step([req EXCEPT ![r] = Catch([req[r] EXCEPT !.nd = @ + 1], what)],
          store, NoEntry, 0, TRUE)
  /\ UNCHANGED nextOid

\* The store call rejects: control passes to the catch block, skipping the
\* rest of the try block.
Throws(r, what) ==
  /\ Step([req EXCEPT ![r] = Catch(req[r], what)], store, cache, 0, FALSE)
  /\ UNCHANGED nextOid

\* await productsCollection.insertOne(req.body): the driver generates the
\* _id, or the body carries one, which must be new (duplicate key error).
InsertOneStep(r) ==
  /\ NoneDone
  /\ req[r].kind = "create" /\ req[r].pc = "mutate"
  /\ \/ /\ nextOid <= MaxOid
        /\ \E val \in NewVals :
             Acked(r, InsertOne(store, Oid(nextOid), val), nextOid + 1)
     \/ \E id \in ClientIds, val \in NewVals :
          /\ ~HasId(store, StrId(id))
          /\ Acked(r, InsertOne(store, StrId(id), val), nextOid)
     \/ Throws(r, "mutate")

\* await productsCollection.updateOne({ _id: req.params.id }, { $set: req.body })
UpdateOneStep(r) ==
  /\ NoneDone
  /\ req[r].kind = "update" /\ req[r].pc = "mutate"
  /\ \/ \E id \in UrlIds, val \in Vals :
          Acked(r, UpdateOne(store, id, val), nextOid)
     \/ Throws(r, "mutate")

\* await productsCollection.deleteOne({ _id: req.params.id })
DeleteOneStep(r) ==
  /\ NoneDone
  /\ req[r].kind = "delete" /\ req[r].pc = "mutate"
  /\ \/ \E id \in UrlIds :
          Acked(r, DeleteOne(store, id), nextOid)
     \/ Throws(r, "mutate")

\* await productsCollection.insertMany(testProducts)
InsertManyStep(r) ==
  /\ NoneDone
  /\ req[r].kind = "populate" /\ req[r].pc = "mutate"
  /\ \/ /\ nextOid + PopulateCount - 1 <= MaxOid
        /\ \E vals \in [1..PopulateCount -> NewVals] :
             Acked(r, InsertMany(store, nextOid, vals), nextOid + PopulateCount)
     \/ Throws(r, "mutate")

\* await redis.del('products'), then the success response; a rejected del
\* lands in the handler's catch.
RedisDelExisting(r) ==
  /\ NoneDone
  /\ req[r].pc = "del"
  /\ LET q == [req[r] EXCEPT !.nd = @ + 1] IN
       \/ /\ Step([req EXCEPT ![r] =
                      [Respond(q, <<>>) EXCEPT
                         !.status = IF cache.present THEN @ ELSE 404]],
                  store, NoEntry, 0, TRUE)
          /\ UNCHANGED nextOid
       \/ /\ Step([req EXCEPT ![r] = Catch(q, "del")], store,
                  [cache EXCEPT !.missedDel = cache.present], 0, FALSE)
          /\ UNCHANGED nextOid

RedisDel(r) ==
  /\ NoneDone
  /\ req[r].pc = "del"
  /\ LET q == [req[r] EXCEPT !.nd = @ + 1] IN
       \/ /\ Step([req EXCEPT ![r] = Respond(q, <<>>)], store, NoEntry, 0, TRUE)
          /\ UNCHANGED nextOid
       \/ /\ Step([req EXCEPT ![r] = Catch(q, "del")], store,
                  [cache EXCEPT !.missedDel = cache.present], 0, FALSE)
          /\ UNCHANGED nextOid

(* --------------------------- the environment -------------------------- *)
\* What last records of an answered request.
Outcome(q) ==
  IF q.kind = "create" /\ q.status = 201 THEN q.id
  ELSE IF q.kind = "clear" /\ q.status = 200 THEN Cleared
  ELSE 0

\* The client has read the response; the slot takes the next request.
Release(r) ==
  /\ req[r].pc = "done"
  /\ StepL([req EXCEPT ![r] = IdleReq], store, cache, 0, FALSE,
           IF ~Alone(r) THEN Mixed
           ELSE IF last = Mixed THEN 0 ELSE Outcome(req[r]))
  /\ UNCHANGED nextOid

\* TickStep seconds pass; Redis drops the key when its time to live is up.
Expire(c, d) ==
  IF c.present /\ c.ttl > d
    THEN [c EXCEPT !.ttl = @ - d, !.age = Min(@ + d, AgeCap)]
    ELSE NoEntry

Tick ==
  /\ NoneDone
  /\ cache.present \/ sinceChange < AgeCap
  /\ Step(req, store, Expire(cache, TickStep), TickStep,
          cache.present /\ ~Expire(cache, TickStep).present)
  /\ UNCHANGED nextOid

Next ==
  \/ \E r \in Reqs : GetProductsCached(r)
  \/ \E r \in Reqs : PostProducts(r)
  \/ \E r \in Reqs : PutProduct(r)
  \/ \E r \in Reqs : DeleteProduct(r)
  \/ \E r \in Reqs : PostPopulate(r)
  \/ \E r \in Reqs : PostClearCache(r)
  \/ \E r \in Reqs : GetProducts(r)
  \/ \E r \in Reqs : GetProduct(r)
  \/ \E r \in Reqs : ListFind(r)
  \/ \E r \in Reqs : GetOneFind(r)
  \/ \E r \in Reqs : CachedGet(r)
  \/ \E r \in Reqs : CachedFind(r)
  \/ \E r \in Reqs : CachedSet(r)
  \/ \E r \in Reqs : InsertOneStep(r)
  \/ \E r \in Reqs : UpdateOneStep(r)
  \/ \E r \in Reqs : DeleteOneStep(r)
  \/ \E r \in Reqs : InsertManyStep(r)
  \/ \E r \in Reqs : RedisDel(r)
  \/ \E r \in Reqs : Release(r)
  \/ Tick

Spec == Init /\ [][Next]_vars

(* ------------------------------ start-up ------------------------------ *)
\* retryStrategy: (times) => { const delay = Math.min(times * 50, 2000);
\*                             return delay; }
retryStrategyUncapped(times) == times * RetryStepMs

retryStrategy(times) == Min(times * RetryStepMs, RetryCapMs)

\* ioredis asks retryStrategy after a lost or refused connection: a number
\* schedules the next attempt after that many ms, anything else ends the
\* client.
Reconnect(c) ==
  LET times == c.times + 1
      delay == retryStrategy(times)
  IN IF delay \in Nat
       THEN [c EXCEPT !.status = "waiting", !.times = times, !.delay = delay]
       ELSE [c EXCEPT !.status = "end", !.times = times]

\* The modules have been loaded: new Redis({...}) is connecting, nothing
\* of initializeApp has run.
BootInit ==
  /\ Empty
  /\ boot = [pc |-> "load", db |-> "none", indexes |-> 0]
  /\ redisConn = [status |-> "connecting", times |-> 0, delay |-> 0,
                  up |-> FALSE]

Running == boot.pc # "exited"

BootStep(b) ==
  /\ boot' = b
  /\ UNCHANGED <<store, nextOid, cache, req, settled, sinceChange, last,
                 redisConn>>

RedisStep(c) ==
  /\ Running
  /\ redisConn' = c
  /\ UNCHANGED <<store, nextOid, cache, req, settled, sinceChange, last, boot>>

\* catch (error) { ...; process.exit(1); }
OnStartupErrorListen(b) == [b EXCEPT !.pc = "listening"]

OnStartupError(b) == [b EXCEPT !.pc = "exited"]

\* if (!uri) throw new Error(...) when config/db.js is loaded; otherwise
\* initializeApp() is called.
LoadConfig ==
  /\ boot.pc = "load"
  /\ \/ BootStep([boot EXCEPT !.pc = "connectDB"])
     \/ BootStep([boot EXCEPT !.pc = "exited"])

\* db = await connectDB(): client.connect() resolves, or connectDB logs
\* and rethrows.
ConnectDB ==
  /\ boot.pc = "connectDB"
  /\ \/ BootStep([boot EXCEPT !.pc = "createIndex", !.db = "connected"])
     \/ BootStep(OnStartupError([boot EXCEPT !.db = "failed"]))

\* The three await productsCollection.createIndex(...); app.listen follows
\* the third.
CreateIndex ==
  /\ boot.pc = "createIndex"
  /\ \/ BootStep([boot EXCEPT !.indexes = @ + 1,
                               !.pc = IF boot.indexes + 1 = Serving.indexes
                                        THEN "listening" ELSE @])
     \/ BootStep(OnStartupError(boot))

\* The connection attempt of the ioredis client succeeds or fails.
RedisConnect ==
  /\ redisConn.status = "connecting"
  /\ \/ RedisStep([RedisReady EXCEPT !.up = TRUE])
     \/ redisConn.times < MaxTimes /\ RedisStep(Reconnect(redisConn))

\* The retry delay has elapsed.
RedisRetry ==
  /\ redisConn.status = "waiting"
  /\ RedisStep([redisConn EXCEPT !.status = "connecting"])

\* An established connection is lost.
RedisClose ==
  /\ redisConn.status = "ready"
  /\ RedisStep(Reconnect(redisConn))

\* A request reaches a route of the listening server.
Accept == \E r \in Reqs, kind \in RouteKinds : Arrive(r, kind)

BootNext ==
  \/ LoadConfig
  \/ ConnectDB
  \/ CreateIndex
  \/ RedisConnect
  \/ RedisRetry
  \/ RedisClose
  \/ Accept

Startup == BootInit /\ [][BootNext]_vars

(* ============================== claims =============================== *)
Readers == {r \in Reqs : req[r].kind = "cached"}
Mutators == {r \in Reqs : req[r].kind \in MutationKinds}
Succeeded(q) == q.status \in {200, 201}

\* Reader r sends a success response in this step.
ReaderResponds(r) ==
  /\ req[r].kind = "cached" /\ req[r].pc # "done"
  /\ req'[r].pc = "done" /\ req'[r].status = 200

\* The cache entry is absent or equal to the store listing, and no reader
\* between its store query and its cache write holds another listing.
Converged ==
  /\ cache.present => cache.val = JSONStringify(store)
  /\ \A r \in Reqs : req[r].pc = "set" => req[r].prods = store

\* The cache entry differs from the store listing.
StaleEntry == cache.present /\ cache.val # JSONStringify(store)

\* C1 as stated: once the store has stopped changing and the key
\* 'products' has been removed since (by one invalidation or one TTL
\* expiry), every GET /products-cached whose cache lookup comes later and
\* hits returns the current store listing.
C1_SettledReadsCurrent ==
  [][settled =>
       \A r \in Reqs :
         (req[r].pc = "get" /\ ReaderResponds(r))
           => req'[r].body = JSONStringify(store)]_vars

\* C1 amended: while the store does not change, once the cache entry is
\* absent or equal to the store listing and no in-flight reader holds a
\* listing queried before the last mutation, this stays so and every
\* GET /products-cached that responds returns the current store listing.
C1_ConvergedStays ==
  [][(Converged /\ store' = store) =>
       /\ Converged'
       /\ \A r \in Reqs :
            ReaderResponds(r) => req'[r].body = JSONStringify(store)]_vars

\* C1 witness: after a mutation a reader is answered from a cache entry that
\* equals the non-empty store listing.
C1_Witness ==
  /\ Converged /\ settled /\ store # <<>> /\ cache.present
  /\ \E r \in Reqs : /\ req[r].kind = "cached" /\ req[r].pc = "done"
                     /\ req[r].hit = "hit" /\ req[r].status = 200
                     /\ req[r].body = JSONStringify(store)

\* C2: a mutating request whose redis.del fails after the store acknowledged
\* the mutation is still answered with success.
C2_InvalidationFailureAbsorbed ==
  \A r \in Mutators :
    (req[r].pc = "done" /\ req[r].acked /\ req[r].failed = "del")
      => Succeeded(req[r])

\* C3: a GET /products-cached whose redis.set fails after the store query
\* succeeded is still answered 200 with a listing.
C3_CacheWriteFailureNonFatal ==
  \A r \in Readers :
    (req[r].pc = "done" /\ req[r].failed = "set")
      => (req[r].status = 200 /\ Len(req[r].body) >= 2)

\* C4: a GET /products-cached whose redis.get fails is treated as a miss: it
\* queries the store once and is answered 200.
C4_CacheReadFailureFallsThrough ==
  \A r \in Readers :
    (req[r].pc = "done" /\ req[r].failed = "get")
      => (req[r].status = 200 /\ req[r].nq = 1)

\* C5: a mutating request whose store mutation was acknowledged is about to
\* issue redis.del, or has responded after issuing it exactly once, whether
\* the delete succeeded or failed.
C5_InvalidationAttempted ==
  \A r \in Mutators :
    req[r].acked => \/ req[r].pc = "del" /\ req[r].nd = 0
                    \/ req[r].pc = "done" /\ req[r].nd = 1

\* C5 witness: an acknowledged mutation has responded after issuing a
\* redis.del that failed.
C5_Witness ==
  \E r \in Mutators :
    /\ req[r].pc = "done" /\ req[r].acked /\ req[r].nd = 1
    /\ req[r].failed = "del"

\* C6: a mutating request issues redis.del only after its own store
\* mutation has been acknowledged.
C6_InvalidationAfterAck ==
  \A r \in Mutators : (req[r].pc = "del" \/ req[r].nd > 0) => req[r].acked

\* C6 witness: POST /products answered 201 after insertOne, then redis.del.
C6_Witness ==
  \E r \in Reqs :
    /\ req[r].kind = "create" /\ req[r].pc = "done" /\ req[r].status = 201
    /\ req[r].acked /\ req[r].nd = 1 /\ ~cache.present

\* C7 as stated: a hit performs no store query; a miss performs exactly one
\* store query and exactly one cache write before responding.
C7_HitZeroMissOneAndOne ==
  \A r \in Readers :
    req[r].pc = "done" =>
      /\ req[r].hit = "hit" => req[r].nq = 0
      /\ req[r].hit = "miss" => (req[r].nq = 1 /\ req[r].nw = 1)

\* C7 amended: a hit performs no store query and no cache write; a miss
\* performs exactly one store query and, unless that query failed, exactly
\* one cache write before responding.
C7_HitZeroMissOne ==
  \A r \in Readers :
    req[r].pc = "done" =>
      /\ req[r].hit = "hit" => (req[r].nq = 0 /\ req[r].nw = 0)
      /\ req[r].hit = "miss" =>
           /\ req[r].nq = 1
           /\ req[r].nw = IF req[r].failed = "find" THEN 0 ELSE 1

\* C7 witness: a miss answered 200 after one store query and one cache write
\* of a non-empty listing.
C7_Witness ==
  \E r \in Readers :
    /\ req[r].pc = "done" /\ req[r].hit = "miss" /\ req[r].status = 200
    /\ req[r].nq = 1 /\ req[r].nw = 1 /\ Len(req[r].body) > 2

\* An invalidation of the entry has not happened: a redis.del that would
\* have removed it failed, or a mutating request has not issued its own yet.
InvalidationMissing == cache.missedDel \/ \E r \in Mutators : req[r].pc = "del"

\* C8 as stated: an existing cache entry holds the serialisation of a store
\* listing that was correct no more than TTL seconds ago, unless an
\* invalidation failed to happen.  (A value that differs from the store
\* listing now was last correct before the last store change.)
C8_CacheCorrectWithinTTL ==
  cache.present =>
    /\ cache.was
    /\ \/ cache.val = JSONStringify(store)
       \/ sinceChange <= TTL
       \/ InvalidationMissing

\* C8 amended: an existing cache entry holds the serialisation of a listing
\* that was the store listing at some past instant (when its writer queried
\* the store), and the entry was written less than TTL seconds ago.
C8_CacheWasCorrect ==
  cache.present =>
    /\ cache.was
    /\ cache.val = JSONStringify(JSONParse(cache.val))
    /\ cache.age < TTL /\ cache.ttl = TTL - cache.age

\* C8 witness: an entry less than TTL seconds old whose listing stopped
\* being correct more than TTL seconds ago, every invalidation having
\* happened.
C8_Witness ==
  /\ StaleEntry /\ cache.was /\ ~InvalidationMissing
  /\ cache.age < TTL /\ sinceChange > TTL

\* C9: while the cache entry differs from the store listing, every hit is
\* answered with it, it is replaced or removed only by a cache write, a
\* redis.del or its expiry, and it never reaches the age of TTL seconds.
C9_StaleServedUntilExpiry ==
  [][StaleEntry =>
       /\ \A r \in Reqs :
            (req[r].pc = "get" /\ req'[r].hit = "hit")
              => (req'[r].status = 200 /\ req'[r].body = cache.val)
       /\ cache'.present => cache'.age < TTL
       /\ (cache'.val # cache.val \/ ~cache'.present) =>
            \/ \E r \in Reqs : req'[r].nd = req[r].nd + 1
            \/ \E r \in Reqs : req'[r].nw = req[r].nw + 1
            \/ cache.age + TickStep >= TTL]_vars

\* C9 witness: the race has happened.  No redis.del failed and none is
\* pending, yet the entry differs from the store listing and a reader has
\* just been answered with it.
C9_Witness ==
  /\ StaleEntry /\ ~cache.missedDel /\ cache.was
  /\ \A o \in Reqs : req[o].pc \notin {"mutate", "del"}
  /\ \E r \in Readers : /\ req[r].pc = "done" /\ req[r].hit = "hit"
                        /\ req[r].status = 200 /\ req[r].body = cache.val

\* C10: when a reader that missed writes the cache and responds, the entry
\* is exactly the listing it responds with (whatever another reader wrote
\* before), with a full TTL; and if the store has not changed since its
\* query, that listing is the current store listing.
C10_LastWriteWins ==
  [][\A r \in Reqs :
       (req[r].pc = "set" /\ ReaderResponds(r)) =>
         /\ cache'.present /\ cache'.val = req'[r].body /\ cache'.ttl = TTL
         /\ req[r].prods = store => req'[r].body = JSONStringify(store)]_vars

\* C10 witness: two readers missed on the empty cache; one has written the
\* entry and been answered with the store listing while the other, holding
\* the same listing, is about to write it again.
C10_Witness ==
  \E r \in Readers, o \in Readers :
    /\ r # o /\ store # <<>>
    /\ req[r].pc = "done" /\ req[r].hit = "miss" /\ req[r].status = 200
    /\ req[r].body = JSONStringify(store)
    /\ cache.present /\ cache.val = req[r].body /\ cache.age = 0
    /\ req[o].pc = "set" /\ req[o].hit = "miss" /\ req[o].prods = store

\* The _id texts of the documents of a serialised listing.
ListedIds(body) == {body[2 * i] : i \in 1..((Len(body) - 2) \div 2)}

\* C11: with requests running one at a time, the GET /products-cached
\* answered 200 right after a POST /products answered 201 returns a listing
\* that contains the inserted product, and the one right after a POST
\* /clear-cache answered 200 misses and queries the store once.
C11_NextReadSeesWrite ==
  \A r \in Readers :
    (req[r].pc = "done" /\ req[r].status = 200) =>
      /\ last \notin {0, Cleared, Mixed} =>
           /\ last \in ListedIds(req[r].body)
           /\ req[r].body = JSONStringify(store)
      /\ last = Cleared => (req[r].hit = "miss" /\ req[r].nq = 1)

\* C11 witness: the product of the last POST /products (the second of the
\* collection) is in the listing the next GET /products-cached got from
\* the store.
C11_Witness ==
  \E r \in Readers :
    /\ req[r].pc = "done" /\ req[r].status = 200 /\ req[r].hit = "miss"
    /\ Len(store) = 2 /\ last = IdText(store[2].id)
    /\ last \in ListedIds(req[r].body)

\* C12: when the store query of a miss fails, the request is answered 500
\* in that step, has written nothing to the cache, and the cache is left
\* as it was (an absent key stays absent).
C12_NoNegativeCaching ==
  [][\A r \in Reqs :
       (req[r].kind = "cached" /\ req[r].pc = "find"
          /\ req'[r].failed = "find") =>
         /\ req'[r].pc = "done" /\ req'[r].status = 500
         /\ req'[r].nw = 0 /\ req'[r].body = <<>>
         /\ cache' = cache /\ store' = store]_vars

\* C12 witness: a reader missed, its store query failed, it was answered
\* 500 and the key is absent.
C12_Witness ==
  \E r \in Readers :
    /\ req[r].pc = "done" /\ req[r].failed = "find" /\ req[r].hit = "miss"
    /\ req[r].status = 500 /\ req[r].nw = 0
    /\ ~cache.present /\ store # <<>>

\* C13: a POST /clear-cache whose delete command is carried out is answered
\* 200 and leaves the key absent and the store untouched, whether or not
\* the key was there: a second one in a row gives the same state and the
\* same response.
C13_ClearCacheIdempotent ==
  [][\A r \in Reqs :
       (req[r].kind = "clear" /\ req[r].pc = "del"
          /\ req'[r].pc = "done" /\ req'[r].failed = "none") =>
         /\ req'[r].status = 200 /\ req'[r].body = <<>>
         /\ RedisGet(cache').nil /\ store' = store
         /\ ~cache.present => RedisGet(cache') = RedisGet(cache)]_vars

\* C13 witness: the second of two POST /clear-cache in a row has been
\* answered 200 and the key is absent.
C13_Witness ==
  \E r \in Reqs :
    /\ req[r].kind = "clear" /\ req[r].pc = "done" /\ req[r].status = 200
    /\ last = Cleared /\ ~cache.present /\ store # <<>>

\* C14: the server listens, and a request is in flight, only once the
\* store connection is established; a failed store connection has ended
\* the process, which never listens afterwards.
C14_ListensAfterStoreConnected ==
  [][/\ (boot'.pc = "listening" \/ \E r \in Reqs : req'[r].pc # "idle") =>
          boot'.db = "connected"
     /\ boot'.db = "failed" =>
          (boot'.pc = "exited" /\ \A r \in Reqs : req'[r].pc = "idle")
     /\ boot.pc = "exited" => boot' = boot]_vars

\* C14 witness: the server listens and has accepted a request while the
\* cache client has never been connected and is waiting to retry.
C14_Witness ==
  /\ boot.pc = "listening" /\ boot.db = "connected"
  /\ \E r \in Reqs : req[r].pc # "idle"
  /\ ~redisConn.up /\ redisConn.status = "waiting" /\ redisConn.times >= 2

\* C15 as stated: every retry delay is at most 2000 ms, the client is never
\* ended, and below the cap the delays grow exponentially (each is the
\* geometric mean of its neighbours).
C15_ExponentialBackoff ==
  /\ redisConn.status # "end"
  /\ redisConn.times >= 1 => redisConn.delay <= RetryCapMs
  /\ (redisConn.times >= 2 /\ retryStrategy(redisConn.times + 1) < RetryCapMs) =>
       redisConn.delay * redisConn.delay =
         retryStrategy(redisConn.times - 1) * retryStrategy(redisConn.times + 1)

\* C15 amended: every retry delay is at most 2000 ms, the client is never
\* ended, and the delay of attempt n is 50 * n ms (linear growth) until it
\* reaches the cap, where it stays.
C15_LinearBackoffCapped ==
  /\ redisConn.status # "end"
  /\ redisConn.times >= 1 =>
       /\ redisConn.delay <= RetryCapMs
       /\ redisConn.delay < RetryCapMs =>
            redisConn.delay = redisConn.times * RetryStepMs
       /\ redisConn.times * RetryStepMs >= RetryCapMs =>
            redisConn.delay = RetryCapMs

\* C15 witness: an attempt beyond the one that reaches the cap waits the
\* capped delay.
C15_Witness ==
  /\ redisConn.status = "waiting" /\ redisConn.delay = RetryCapMs
  /\ redisConn.times * RetryStepMs > RetryCapMs

\* C16: a GET /products/:id whose id is the _id of no product, and whose
\* store lookup does not fail, is answered 404 with no document, and the
\* step changes neither the store nor the cache.
C16_UnknownIdIs404 ==
  [][\A r \in Reqs :
       (req[r].kind = "getOne" /\ req[r].pc = "findOne"
          /\ req'[r].pc = "done" /\ req'[r].failed = "none") =>
         /\ store' = store /\ cache' = cache
         /\ req'[r].nw = 0 /\ req'[r].nd = 0
         /\ (\A i \in 1..Len(store) : IdText(store[i].id) # req'[r].id) =>
              (req'[r].status = 404 /\ req'[r].body = <<>>)]_vars

\* C16 witness: the collection is not empty, none of its products has the
\* requested id, and the request has been answered 404.
C16_Witness ==
  \E r \in Reqs :
    /\ req[r].kind = "getOne" /\ req[r].pc = "done" /\ req[r].status = 404
    /\ store # <<>> /\ cache.present
    /\ \A i \in 1..Len(store) : IdText(store[i].id) # req[r].id

\* C17: a GET /products whose store query does not fail is answered 200
\* with the current store listing, and no step of the request looks the
\* cache up, writes it, deletes it or changes it.
C17_UncachedListingFresh ==
  [][\A r \in Reqs :
       /\ (req'[r].kind = "list" /\ req'[r] # req[r]) =>
            /\ cache' = cache /\ store' = store
            /\ req'[r].hit = "none" /\ req'[r].nw = 0 /\ req'[r].nd = 0
       /\ (req[r].kind = "list" /\ req[r].pc = "findAll"
             /\ req'[r].pc = "done" /\ req'[r].failed = "none") =>
            (req'[r].status = 200 /\ req'[r].body = JSONStringify(store))]_vars

\* C17 witness: a GET /products has been answered with the store listing
\* while the cache entry holds another listing.
C17_Witness ==
  \E r \in Reqs :
    /\ req[r].kind = "list" /\ req[r].pc = "done" /\ req[r].status = 200
    /\ StaleEntry /\ req[r].body = JSONStringify(store)
    /\ req[r].body # cache.val

\* C18: when the store call of a create, update, delete or populate request
\* fails, the request is answered 500 in that step, has issued no cache
\* delete, and the cache entry and the store are left as they were.
C18_FailedMutationKeepsCache ==
  [][\A r \in Reqs :
       (req[r].kind \in MutationKinds /\ req[r].pc = "mutate"
          /\ req'[r].failed = "mutate") =>
         /\ req'[r].pc = "done" /\ req'[r].status = 500
         /\ req'[r].nd = 0
         /\ cache' = cache /\ store' = store]_vars

\* C18 witness: a mutating request failed at the store and was answered
\* 500 with no delete issued, and the cache entry is still there.
C18_Witness ==
  \E r \in Mutators :
    /\ req[r].pc = "done" /\ req[r].failed = "mutate" /\ req[r].status = 500
    /\ req[r].nd = 0 /\ cache.present /\ cache.age > 0

\* C19: the step of a cache hit leaves the entry as it is; an entry always
\* expires TTL seconds after it was written; and the entry gets a new value
\* or a longer time to live only in the cache write of a reader that
\* missed, which gives it the full TTL.
C19_HitLeavesEntry ==
  [][/\ \A r \in Reqs :
          (req[r].pc = "get" /\ req'[r].hit = "hit") => cache' = cache
     /\ cache'.present => cache'.ttl + cache'.age = TTL
     /\ (cache'.present
           /\ (~cache.present \/ cache'.val # cache.val
                 \/ cache'.ttl > cache.ttl)) =>
          \E r \in Readers :
            /\ req[r].pc = "set" /\ req[r].hit = "miss"
            /\ req'[r].nw = req[r].nw + 1
            /\ cache'.ttl = TTL /\ cache'.age = 0]_vars

\* C19 witness: a reader has been answered from an entry written some time
\* ago, and the entry still has only the rest of its TTL to live.
C19_Witness ==
  \E r \in Readers :
    /\ req[r].pc = "done" /\ req[r].hit = "hit" /\ req[r].status = 200
    /\ cache.present /\ cache.age > 0 /\ cache.ttl = TTL - cache.age

\* C20: a reader that missed on an empty collection writes the serialised
\* empty listing to the cache, and a lookup that finds that entry is a hit
\* answered with the empty listing and no store query.
C20_EmptyListingCached ==
  [][\A r \in Readers :
       /\ (req[r].pc = "set" /\ req[r].prods = <<>>
             /\ req'[r].pc = "done" /\ req'[r].failed = "none") =>
            (cache'.present /\ cache'.val = JSONStringify(<<>>))
       /\ (req[r].pc = "get" /\ cache.present
             /\ cache.val = JSONStringify(<<>>)
             /\ req'[r].pc # "get" /\ req'[r].failed = "none") =>
            /\ req'[r].pc = "done" /\ req'[r].hit = "hit"
            /\ req'[r].status = 200 /\ req'[r].nq = 0
            /\ req'[r].body = JSONStringify(<<>>)]_vars

\* C20 witness: the collection is empty, the cache holds the serialised
\* empty listing, and a reader has been answered with it from the cache
\* without a store query.
C20_Witness ==
  \E r \in Readers :
    /\ store = <<>> /\ cache.present /\ cache.val = <<91, 93>>
    /\ req[r].pc = "done" /\ req[r].hit = "hit" /\ req[r].status = 200
    /\ req[r].nq = 0 /\ req[r].body = <<91, 93>>

====
